---------------------------- MODULE Spec2Model ----------------------------
(***************************************************************************)
(* A model of nictl (src/src/nictl/main.py), a client of the niri window   *)
(* manager's IPC socket.                                                   *)
(*                                                                         *)
(* The module holds eight specifications over one set of variables:        *)
(*   SpecWidths  calculate_pixel_widths on the widths fit_all_windows      *)
(*               hands it (output width, gaps, column count)               *)
(*   SpecNextWs  cycle_workspace.next_workspace on bounded inputs          *)
(*   SpecSend    one send_command round trip after another, byte by byte   *)
(*   SpecCycle   cycle_workspace against a niri with two outputs           *)
(*   SpecSpawn   spawn_or_focus against a niri with a few windows          *)
(*   SpecFit     fit_all_windows, its resizes and its event stream         *)
(*   SpecOps     one run of any of the three operations, failures included *)
(*   SpecWait    one fit_all_windows run, niri answering, the client fair  *)
(* A specification leaves the variables of the others at their idle value. *)
(***************************************************************************)
EXTENDS Integers, Sequences, FiniteSets, TLC

VARIABLES
    pure,            \* inputs and result of the pure function under check
    env_address,     \* os.environ.get("NIRI_SOCKET") is set
    cmd,             \* send_command's argument
    tpc,             \* send_command's position
    n_open,          \* sockets open right now
    n_opened,        \* sockets created by the running call
    wire,            \* bytes the daemon has written and the client has not received
    peer,            \* the daemon's end: "quiet", "open" (has written), "closed"
    buffer,          \* read_lines' buffer
    result,          \* how the call ended
    focused_output,  \* niri: name of the focused output
    workspaces,      \* niri: set of workspace records
    windows,         \* niri: set of window records
    focused_window,  \* niri: id of the focused window, 0 for none
    output_width,    \* niri: logical width of the focused output
    dpending,        \* niri: resizes accepted and not yet laid out
    pc,              \* position of the running operation
    args,            \* arguments of the running operation
    loc,             \* its local variables
    sent,            \* the actions it has sent so far
    last,            \* the latest completed cycle_workspace run
    hist             \* history kept for the properties: the run before last

tvars == <<env_address, cmd, tpc, n_open, n_opened, wire, peer, buffer, result>>
dvars == <<focused_output, workspaces, windows, focused_window, output_width, dpending>>
ovars == <<pc, args, loc, sent, last, hist>>
vars == <<pure, tvars, dvars, ovars>>

(***************************************************************************)
(* Bounds of the model.                                                    *)
(***************************************************************************)
MaxWidth == 12      \* output widths 0..MaxWidth (and the spec's 1920, 1923)
MaxGaps == 10       \* gaps 0..MaxGaps
MaxCols == 4        \* column counts 1..MaxCols
MaxIdx == 6         \* workspace indices 1..MaxIdx in SpecNextWs
LineLen == 2        \* bytes of a JSON line before its newline
MaxWs == 4          \* workspaces 1..MaxWs on the focused output in SpecCycle
MaxWsOther == 1     \* workspaces 0..MaxWsOther on the other output
MaxIdLen == 2       \* characters of an app_id in SpecSpawn
MaxWin == 2         \* open windows in SpecSpawn
MaxFitWin == 3      \* open windows in SpecFit
MaxOther == 1       \* events other than layout changes niri writes to a stream
MaxSmallWin == 2    \* open windows in SpecOps
MaxWaitWin == 1     \* open windows in SpecWait

\* client.recv(1024)
RecvSize == 1024

(***************************************************************************)
(* Small helpers.                                                          *)
(***************************************************************************)
Min(a, b) == IF a <= b THEN a ELSE b

SetMin(S) == CHOOSE x \in S : \A y \in S : x <= y

SetMax(S) == CHOOSE x \in S : \A y \in S : x >= y

Range(s) == {s[i] : i \in DOMAIN s}

RECURSIVE SumSeq(_)
SumSeq(s) == IF s = <<>> THEN 0 ELSE Head(s) + SumSeq(Tail(s))

\* sorted(...) of a set of integers
RECURSIVE SortedSeq(_)
SortedSeq(S) == IF S = {} THEN <<>> ELSE <<SetMin(S)>> \o SortedSeq(S \ {SetMin(S)})

(***************************************************************************)
(* calculate_pixel_widths, and the usable width fit_all_windows gives it.  *)
(* Python's // and % floor, as TLC's \div and % do for a positive divisor. *)
(***************************************************************************)
usable_width(width, gaps, n_columns) == width - (gaps * (n_columns + 1))

\* The remainder goes to one column too many.
calculate_pixel_widths_offbyone(usable, n_columns) ==
    LET base == usable \div n_columns
        remainder == usable % n_columns
    IN  [i \in 1..n_columns |-> base + (IF (i - 1) <= remainder THEN 1 ELSE 0)]

calculate_pixel_widths(usable, n_columns) ==
    LET base == usable \div n_columns
        remainder == usable % n_columns
    IN  [i \in 1..n_columns |-> base + (IF (i - 1) < remainder THEN 1 ELSE 0)]

(***************************************************************************)
(* cycle_workspace.next_workspace.  occupied is None ([none |-> TRUE]) or  *)
(* the sorted list occupied_workspaces() returned.  The default= argument  *)
(* of min/max is evaluated before the call, so occupied[0] and             *)
(* occupied[-1] raise IndexError on an empty list.                         *)
(***************************************************************************)
OccNone == [none |-> TRUE, list |-> <<>>]

OccList(s) == [none |-> FALSE, list |-> s]

NoTarget == [exc |-> "IndexError", val |-> 0]

Target(v) == [exc |-> "", val |-> v]

raw_target(current, step, occupied) ==
    LET occ == occupied.list
        above == {w \in Range(occ) : w > current}
        below == {w \in Range(occ) : w < current}
    IN  IF occupied.none \/ current \in Range(occ)
        THEN Target(current + step)
        ELSE IF (current + step) \notin Range(occ)
        THEN IF occ = <<>>
             THEN NoTarget
             ELSE IF step > 0
                  THEN Target(IF above # {} THEN SetMin(above) ELSE occ[1])
                  ELSE Target(IF below # {} THEN SetMax(below) ELSE occ[Len(occ)])
        ELSE Target(current + step)

wrap_around(target, max_workspace) ==
    IF target < 1 THEN max_workspace
    ELSE IF target > max_workspace THEN 1
    ELSE target

\* The wrap is clamped instead: past the last workspace stays on the last one.
next_workspace_clamped(current, step, occupied, max_workspace) ==
    LET raw == raw_target(current, step, occupied)
    IN  IF raw.exc # "" THEN raw
        ELSE Target(IF raw.val < 1 THEN 1
                    ELSE IF raw.val > max_workspace THEN max_workspace
                    ELSE raw.val)

\* The fallbacks of the two directions are swapped.
next_workspace_swapped(current, step, occupied, max_workspace) ==
    LET occ == occupied.list
        above == {w \in Range(occ) : w > current}
        below == {w \in Range(occ) : w < current}
        raw == IF occupied.none \/ current \in Range(occ) \/ (current + step) \in Range(occ)
               THEN Target(current + step)
               ELSE IF occ = <<>> THEN NoTarget
               ELSE IF step > 0
                    THEN Target(IF above # {} THEN SetMin(above) ELSE occ[Len(occ)])
                    ELSE Target(IF below # {} THEN SetMax(below) ELSE occ[1])
    IN  IF raw.exc # "" THEN raw ELSE Target(wrap_around(raw.val, max_workspace))

next_workspace(current, step, occupied, max_workspace) ==
    LET raw == raw_target(current, step, occupied)
    IN  IF raw.exc # "" THEN raw ELSE Target(wrap_around(raw.val, max_workspace))

(***************************************************************************)
(* JSON as the code reads it.  A decoded line is garbage (json.loads       *)
(* raises), an array (valid JSON without .get) or an object, of which only *)
(* the keys the code looks up are kept: "Ok", "Err" and                    *)
(* "WindowLayoutsChanged" (the window ids of its "changes").               *)
(* A payload (the value of "Ok") is null, a string, or a dict with no key  *)
(* or one key; the value under that key is an atom: "null", "empty" (a     *)
(* falsy [] or {}) or "data".                                              *)
(***************************************************************************)
Atoms == {"null", "empty", "data"}

JNull == [t |-> "null", key |-> "", val |-> ""]

JStr(s) == [t |-> "str", key |-> s, val |-> ""]

JDict(k, v) == [t |-> "dict", key |-> k, val |-> v]

JEmptyDict == JDict("", "")

JAtom(v) == [t |-> "atom", key |-> "", val |-> v]

\* Python truthiness of a payload: None, "" and {} are falsy.
Truthy(p) == p.t \in {"str", "dict"} /\ p.key # ""

Garbage == [kind |-> "garbage", hasOk |-> FALSE, ok |-> JNull, hasErr |-> FALSE,
            err |-> "", hasWLC |-> FALSE, wlc |-> {}]

JArray == [Garbage EXCEPT !.kind = "array"]

JObject == [Garbage EXCEPT !.kind = "object"]

Envelope(hasOk, ok, hasErr, err) ==
    [JObject EXCEPT !.hasOk = hasOk, !.ok = ok, !.hasErr = hasErr, !.err = err]

LayoutEvent(ids) == [JObject EXCEPT !.hasWLC = TRUE, !.wlc = ids]

\* Any other event, the handshake's {"Ok": "Handled"} among them.
OtherEvent == Envelope(TRUE, JStr("Handled"), FALSE, "")

(***************************************************************************)
(* The wire.  A line of JSON text is LineLen bytes, byte i of message m    *)
(* being [m |-> m, part |-> i], and ends with the newline byte NL.         *)
(* json.loads gives the message back from the whole line and raises on     *)
(* anything else (a proper prefix of an object or an array is not JSON).   *)
(***************************************************************************)
NL == [m |-> Garbage, part |-> 0]

Encode(m) == [i \in 1..(LineLen + 1) |-> IF i <= LineLen THEN [m |-> m, part |-> i] ELSE NL]

json_loads(line) ==
    IF Len(line) = LineLen /\ \A i \in 1..LineLen : line[i] = [m |-> line[1].m, part |-> i]
    THEN line[1].m
    ELSE Garbage

\* The receive loop stops at the first chunk, newline or not.
EndsWithNL_first_chunk(buf) == buf # <<>>

\* buffer.endswith(b"\n")
EndsWithNL(buf) == buf # <<>> /\ buf[Len(buf)] = NL

\* buffer.split(b"\n"): the segments between newlines, empty ones included;
\* with n newlines there are n + 1 segments, the k-th between the (k-1)-th
\* newline (or the start) and the k-th (or the end)
Split(buf) ==
    LET nls == {i \in DOMAIN buf : buf[i] = NL}
        n == Cardinality(nls)
        pos(k) == IF k = 0 THEN 0
                  ELSE IF k = n + 1 THEN Len(buf) + 1
                  ELSE CHOOSE i \in nls : Cardinality({j \in nls : j <= i}) = k
    IN  [k \in 1..(n + 1) |-> SubSeq(buf, pos(k - 1) + 1, pos(k) - 1)]

NonEmpty(line) == line # <<>>

\* what read_lines yields from its buffer once its while loop has ended
read_lines_yield(buf) == SelectSeq(Split(buf), NonEmpty)

(***************************************************************************)
(* send_command from the response line on: json.loads, the "Ok"/"Err"      *)
(* unpacking, and the return or the exception.                             *)
(***************************************************************************)
NoValue == [t |-> "none", key |-> "", val |-> ""]

Return(v) == [kind |-> "return", exc |-> "", detail |-> "", value |-> v]

Raise(exc, detail) == [kind |-> "raise", exc |-> exc, detail |-> detail, value |-> NoValue]

Running == [kind |-> "running", exc |-> "", detail |-> "", value |-> NoValue]

\* An envelope with neither key comes back as an empty result.
unpack_lenient(c, json_response) ==
    IF json_response.kind = "garbage" THEN Return(JNull)
    ELSE IF json_response.kind = "array" THEN Raise("AttributeError", "")
    ELSE LET ok_result == IF json_response.hasOk THEN json_response.ok ELSE JNull
         IN  IF Truthy(ok_result)
             THEN IF c.kind = "named"
                  THEN IF ok_result.t = "dict" /\ ok_result.key = c.name
                       THEN Return(JAtom(ok_result.val))
                       ELSE Raise(IF ok_result.t = "dict" THEN "KeyError" ELSE "TypeError", "")
                  ELSE Return(ok_result)
             ELSE IF json_response.hasErr
                  THEN Raise("Exception", json_response.err)
                  ELSE Return(JNull)

unpack(c, json_response) ==
    IF json_response.kind = "garbage" THEN Raise("JSONDecodeError", "")
    ELSE IF json_response.kind = "array" THEN Raise("AttributeError", "")
    ELSE LET ok_result == IF json_response.hasOk THEN json_response.ok ELSE JNull
         IN  IF Truthy(ok_result)
             THEN IF c.kind = "named"
                  THEN IF ok_result.t = "dict" /\ ok_result.key = c.name
                       THEN Return(JAtom(ok_result.val))
                       ELSE Raise(IF ok_result.t = "dict" THEN "KeyError" ELSE "TypeError", "")
                  ELSE Return(ok_result)
             ELSE Raise("Exception", IF json_response.hasErr THEN json_response.err ELSE "None")

\* next(read_lines(client)) and what follows it
send_command_result(c, buf) ==
    LET lines == read_lines_yield(buf)
    IN  IF lines = <<>> THEN Raise("StopIteration", "") ELSE unpack(c, json_loads(lines[1]))

(***************************************************************************)
(* Idle values: what a specification gives the variables it does not use.  *)
(***************************************************************************)
NoCmd == [kind |-> "none", name |-> ""]

IdlePure == pure = [fn |-> "none"]

IdleT ==
    /\ env_address = TRUE
    /\ cmd = NoCmd
    /\ tpc = "idle"
    /\ n_open = 0
    /\ n_opened = 0
    /\ wire = <<>>
    /\ peer = "quiet"
    /\ buffer = <<>>
    /\ result = Running

IdleD ==
    /\ focused_output = ""
    /\ workspaces = {}
    /\ windows = {}
    /\ focused_window = 0
    /\ output_width = 0
    /\ dpending = {}

IdleO ==
    /\ pc = "idle"
    /\ args = [op |-> "none"]
    /\ loc = [op |-> "none"]
    /\ sent = <<>>
    /\ last = [op |-> "none"]
    /\ hist = [op |-> "none"]

(***************************************************************************)
(* SpecWidths: calculate_pixel_widths on the usable width fit_all_windows  *)
(* computes from the output's width, the gaps argument (any int the        *)
(* command line gives) and the number of columns.                          *)
(***************************************************************************)
OutputWidths == (0..MaxWidth) \cup {1920, 1923}

InitWidths ==
    /\ pure \in [fn : {"widths"}, width : OutputWidths, gaps : 0..MaxGaps,
                 n_columns : 1..MaxCols, done : {FALSE}, widths : {<<>>}]
    /\ IdleT /\ IdleD /\ IdleO

ApplyWidths ==
    /\ pure.fn = "widths"
    /\ ~pure.done
    /\ pure' = [pure EXCEPT
                  !.done = TRUE,
                  !.widths = calculate_pixel_widths(
                                 usable_width(pure.width, pure.gaps, pure.n_columns),
                                 pure.n_columns)]
    /\ UNCHANGED <<tvars, dvars, ovars>>

SpecWidths == InitWidths /\ [][ApplyWidths]_vars

(***************************************************************************)
(* SpecNextWs: next_workspace with skip enabled, on every current index,   *)
(* direction, highest index and occupied list within the bounds.  The      *)
(* occupied list is sorted, as occupied_workspaces returns it, and may     *)
(* hold indices above max_workspace (workspaces of another output).        *)
(***************************************************************************)
InitNextWs ==
    /\ \E mx \in 1..MaxIdx, occ \in SUBSET (1..MaxIdx), step \in {1, -1} :
         \E current \in 1..mx :
            pure = [fn |-> "next", current |-> current, step |-> step, occ |-> occ,
                    max_workspace |-> mx, done |-> FALSE, res |-> NoTarget]
    /\ IdleT /\ IdleD /\ IdleO

ApplyNextWs ==
    /\ pure.fn = "next"
    /\ ~pure.done
    /\ pure' = [pure EXCEPT
                  !.done = TRUE,
                  !.res = next_workspace(pure.current, pure.step,
                                         OccList(SortedSeq(pure.occ)), pure.max_workspace)]
    /\ UNCHANGED <<tvars, dvars, ovars>>

SpecNextWs == InitNextWs /\ [][ApplyNextWs]_vars

(***************************************************************************)
(* Properties of calculate_pixel_widths.                                   *)
(***************************************************************************)
WidthsShape(W, N, out) ==
    LET r == W % N
    IN  /\ DOMAIN out = 1..N
        /\ SumSeq(out) = W
        /\ \A i, j \in 1..N : out[i] - out[j] <= 1
        /\ \A i, j \in 1..N : (i <= r /\ j > r) => out[i] = out[j] + 1
        /\ \A i, j \in 1..N : ((i <= r) = (j <= r)) => out[i] = out[j]

WidthsExamples(W, N, out) ==
    /\ (W = 1890 /\ N = 2) => out = <<945, 945>>
    /\ (W = 1883 /\ N = 3) => out = <<628, 628, 627>>

\* C1 as stated: for every usable width W and N > 0 the result has N entries,
\* all >= 0, summing to W, pairwise at most 1 apart, the first W mod N of them
\* 1 greater than the rest.
C1_AsStated ==
    (pure.fn = "widths" /\ pure.done) =>
        LET W == usable_width(pure.width, pure.gaps, pure.n_columns)
        IN  /\ WidthsShape(W, pure.n_columns, pure.widths)
            /\ WidthsExamples(W, pure.n_columns, pure.widths)
            /\ \A i \in 1..pure.n_columns : pure.widths[i] >= 0

\* C1 amended: the entries are >= 0 when the usable width is; for a negative
\* usable width (gaps * (columns + 1) above the output's width) the result still
\* has N entries summing to W, at most 1 apart, the first W mod N (floored
\* modulo) 1 greater than the rest, and holds negative entries.
C1_Distribute ==
    (pure.fn = "widths" /\ pure.done) =>
        LET W == usable_width(pure.width, pure.gaps, pure.n_columns)
        IN  /\ WidthsShape(W, pure.n_columns, pure.widths)
            /\ WidthsExamples(W, pure.n_columns, pure.widths)
            /\ (W >= 0) => \A i \in 1..pure.n_columns : pure.widths[i] >= 0
            /\ (W < 0) => \E i \in 1..pure.n_columns : pure.widths[i] < 0

C1_Witness ==
    /\ pure.fn = "widths" /\ pure.done
    /\ usable_width(pure.width, pure.gaps, pure.n_columns) = 1883
    /\ pure.n_columns = 3
    /\ pure.widths = <<628, 628, 627>>

(***************************************************************************)
(* Properties of next_workspace with skip enabled.                         *)
(***************************************************************************)
C3_ExpectedRaw(c, s, Occ) ==
    LET beyond == {w \in Occ : (w - c) * s > 0}
    IN  IF c \in Occ THEN c + s
        ELSE IF (c + s) \in Occ THEN c + s
        ELSE IF beyond # {}
             THEN CHOOSE w \in beyond : \A v \in beyond : (w - c) * s <= (v - c) * s
             ELSE IF s > 0 THEN SetMin(Occ) ELSE SetMax(Occ)

C3_Wrapped(t, mx) == IF t < 1 THEN mx ELSE IF t > mx THEN 1 ELSE t

\* C3: with skip enabled the raw target is c+s when c is occupied or c+s is, else
\* the nearest occupied index beyond c in the direction of the step, else
\* min(Occ) stepping down and max(Occ) stepping up; it is then wrapped. With
\* Occ = {2,5} and max = 6: down from 1 is 2, down from 3 is 5, down from 5 is 6.
\* (With nothing occupied there is no min(Occ) or max(Occ) to step to.)
C3_SkipTarget ==
    (pure.fn = "next" /\ pure.done) =>
        LET c == pure.current
            s == pure.step
            Occ == pure.occ
            mx == pure.max_workspace
        IN  /\ (Occ # {}) =>
                 /\ pure.res.exc = ""
                 /\ pure.res.val = C3_Wrapped(C3_ExpectedRaw(c, s, Occ), mx)
            /\ (Occ = {2, 5} /\ mx = 6 /\ s = 1 /\ c = 1) => pure.res.val = 2
            /\ (Occ = {2, 5} /\ mx = 6 /\ s = 1 /\ c = 3) => pure.res.val = 5
            /\ (Occ = {2, 5} /\ mx = 6 /\ s = 1 /\ c = 5) => pure.res.val = 6

C3_Witness ==
    /\ pure.fn = "next" /\ pure.done
    /\ pure.occ = {2, 5} /\ pure.max_workspace = 6
    /\ pure.step = 1 /\ pure.current = 3
    /\ pure.res = Target(5)

(***************************************************************************)
(* SpecSend: send_command, one call after another.  The daemon answers a   *)
(* request with any line of Responses, or with a prefix of one and a       *)
(* close; recv hands over any non-empty prefix of what is in flight.       *)
(***************************************************************************)
Cmds == {[kind |-> "named", name |-> "Windows"],
         [kind |-> "structured", name |-> "FocusWindow"]}

Payloads ==
    {JNull, JStr("Handled"), JStr(""), JEmptyDict}
        \cup {JDict(k, v) : k \in {"Windows", "Workspaces"}, v \in Atoms}

Responses ==
    {Garbage, JArray}
        \cup {Envelope(TRUE, p, he, IF he THEN "boom" ELSE "") : p \in Payloads, he \in BOOLEAN}
        \cup {Envelope(FALSE, JNull, he, IF he THEN "boom" ELSE "") : he \in BOOLEAN}

NoAddress == Raise("Exception", "Could not find socket address. Is niri running?")

\* The socket is closed only when the call returns.
socket_exit_on_return_only(res) == res.kind = "return"

\* "with socket(AF_UNIX, SOCK_STREAM) as client": closed however the block ends
socket_exit(res) == TRUE

\* sockets open once a call that held one has ended with res
AfterExit(open, res) == IF socket_exit(res) THEN open - 1 ELSE open

InitSend ==
    /\ env_address \in BOOLEAN
    /\ cmd = NoCmd
    /\ tpc = "idle"
    /\ n_open = 0
    /\ n_opened = 0
    /\ wire = <<>>
    /\ peer = "quiet"
    /\ buffer = <<>>
    /\ result = Running
    /\ IdlePure /\ IdleD /\ IdleO

SendCommandStart ==
    /\ tpc \in {"idle", "done"}
    /\ \E c \in Cmds : cmd' = c
    /\ tpc' = "connect"
    /\ n_opened' = 0
    /\ wire' = <<>>
    /\ peer' = "quiet"
    /\ buffer' = <<>>
    /\ result' = Running
    /\ UNCHANGED <<env_address, n_open, pure, dvars, ovars>>

\* niri_socket_connection: NIRI_SOCKET is not set, no socket is created
ConnectNoAddress ==
    /\ tpc = "connect"
    /\ ~env_address
    /\ result' = NoAddress
    /\ tpc' = "done"
    /\ UNCHANGED <<env_address, cmd, n_open, n_opened, wire, peer, buffer, pure, dvars, ovars>>

ConnectOk ==
    /\ tpc = "connect"
    /\ env_address
    /\ n_open' = n_open + 1
    /\ n_opened' = n_opened + 1
    /\ tpc' = "send"
    /\ UNCHANGED <<env_address, cmd, wire, peer, buffer, result, pure, dvars, ovars>>

\* the socket is created and client.connect raises
ConnectRefused ==
    /\ tpc = "connect"
    /\ env_address
    /\ n_opened' = n_opened + 1
    /\ result' = Raise("ConnectionRefusedError", "")
    /\ n_open' = AfterExit(n_open + 1, result')
    /\ tpc' = "done"
    /\ UNCHANGED <<env_address, cmd, wire, peer, buffer, pure, dvars, ovars>>

SendAllOk ==
    /\ tpc = "send"
    /\ tpc' = "recv"
    /\ UNCHANGED <<env_address, cmd, n_open, n_opened, wire, peer, buffer, result, pure, dvars, ovars>>

SendAllFails ==
    /\ tpc = "send"
    /\ result' = Raise("BrokenPipeError", "")
    /\ n_open' = AfterExit(n_open, result')
    /\ tpc' = "done"
    /\ UNCHANGED <<env_address, cmd, n_opened, wire, peer, buffer, pure, dvars, ovars>>

\* The daemon writes n bytes of a response line and may close.
DaemonReply ==
    /\ tpc = "recv"
    /\ peer = "quiet"
    /\ \E resp \in Responses, n \in 0..(LineLen + 1), closes \in BOOLEAN :
         /\ wire' = SubSeq(Encode(resp), 1, n)
         /\ peer' = IF closes \/ n < LineLen + 1 THEN "closed" ELSE "open"
    /\ UNCHANGED <<env_address, cmd, tpc, n_open, n_opened, buffer, result, pure, dvars, ovars>>

\* read_lines: one pass of "while not buffer.endswith(b'\n')" with a chunk
RecvChunk ==
    /\ tpc = "recv"
    /\ wire # <<>>
    /\ \E k \in 1..Min(RecvSize, Len(wire)) :
         /\ buffer' = buffer \o SubSeq(wire, 1, k)
         /\ wire' = SubSeq(wire, k + 1, Len(wire))
    /\ tpc' = IF EndsWithNL(buffer') THEN "decode" ELSE "recv"
    /\ UNCHANGED <<env_address, cmd, n_open, n_opened, peer, result, pure, dvars, ovars>>

\* read_lines: recv returns b"" (the peer has closed), break
RecvEOF ==
    /\ tpc = "recv"
    /\ wire = <<>>
    /\ peer = "closed"
    /\ tpc' = "decode"
    /\ UNCHANGED <<env_address, cmd, n_open, n_opened, wire, peer, buffer, result, pure, dvars, ovars>>

RecvFails ==
    /\ tpc = "recv"
    /\ result' = Raise("ConnectionResetError", "")
    /\ n_open' = AfterExit(n_open, result')
    /\ tpc' = "done"
    /\ UNCHANGED <<env_address, cmd, n_opened, wire, peer, buffer, pure, dvars, ovars>>

\* next(read_lines(client)), json.loads, the unpacking, and the with block's exit
SendCommandFinish ==
    /\ tpc = "decode"
    /\ result' = send_command_result(cmd, buffer)
    /\ n_open' = AfterExit(n_open, result')
    /\ tpc' = "done"
    /\ UNCHANGED <<env_address, cmd, n_opened, wire, peer, buffer, pure, dvars, ovars>>

NextSend ==
    \/ SendCommandStart
    \/ ConnectNoAddress
    \/ ConnectOk
    \/ ConnectRefused
    \/ SendAllOk
    \/ SendAllFails
    \/ DaemonReply
    \/ RecvChunk
    \/ RecvEOF
    \/ RecvFails
    \/ SendCommandFinish

SpecSend == InitSend /\ [][NextSend]_vars

(***************************************************************************)
(* Properties of send_command.                                             *)
(***************************************************************************)
\* the call got to its response line: it had one to read and no I/O error ended it
GotLine ==
    /\ tpc = "done"
    /\ result.exc \notin {"ConnectionResetError", "BrokenPipeError", "ConnectionRefusedError"}
    /\ result # NoAddress
    /\ read_lines_yield(buffer) # <<>>

ResponseLine == json_loads(read_lines_yield(buffer)[1])

\* C4: a response line that is invalid JSON, or an envelope with neither "Ok"
\* nor "Err", ends send_command in an error, for named and structured commands;
\* it is never returned as a value.
C4_Rejected ==
    (/\ GotLine
     /\ \/ ResponseLine.kind = "garbage"
        \/ ResponseLine.kind = "object" /\ ~ResponseLine.hasOk /\ ~ResponseLine.hasErr)
        => result.kind = "raise" /\ result.value = NoValue

C4_Witness ==
    /\ GotLine
    /\ cmd.kind = "named"
    /\ ResponseLine = Envelope(FALSE, JNull, FALSE, "")
    /\ result = Raise("Exception", "None")

\* C5 as stated: whenever the envelope has "Ok", send_command returns: a named
\* action the value under its own name, an empty result when that key is absent
\* or its value falsy; a structured action the payload as it is, whatever it is.
C5_AsStated ==
    (GotLine /\ ResponseLine.kind = "object" /\ ResponseLine.hasOk) =>
        LET ok == ResponseLine.ok
        IN  /\ result.kind = "return"
            /\ cmd.kind = "named" =>
                 IF ok.t = "dict" /\ ok.key = cmd.name /\ ok.val = "data"
                 THEN result.value = JAtom("data")
                 ELSE result.value \in {JNull, JAtom("null"), JAtom("empty")}
            /\ cmd.kind = "structured" => result.value = ok

\* C6 as stated: whenever the envelope has "Err", send_command fails with the
\* daemon's detail and returns nothing, also when the envelope has "Ok" too.
C6_AsStated ==
    (GotLine /\ ResponseLine.kind = "object" /\ ResponseLine.hasErr) =>
        /\ result.kind = "raise"
        /\ result.detail = ResponseLine.err
        /\ result.value = NoValue

\* C7: a send_command call opens one connection and it is closed when the call
\* ends, whichever way it ends (return, failure envelope, JSON decode failure,
\* send or receive failure, the peer closing before any line); no connection is
\* open between calls.
C7_Released ==
    /\ n_open <= 1
    /\ n_opened <= 1
    /\ tpc \in {"idle", "done"} => n_open = 0
    /\ tpc \in {"send", "recv", "decode"} => n_open = 1 /\ n_opened = 1
    /\ (tpc = "done" /\ result # NoAddress) => n_opened = 1

C7_Witness ==
    /\ tpc = "done"
    /\ result.exc = "StopIteration"
    /\ buffer = <<>>
    /\ n_opened = 1
    /\ n_open = 0

\* what niri has written of its reply: the bytes received and those in flight
Written == buffer \o wire

\* C16: send_command's result does not depend on how the response line is split
\* into chunks: the call decodes only once it has received everything up to the
\* newline (or the peer has closed), and when niri wrote the whole line of a
\* response the result is that of the response; when niri closed after a partial
\* line without a newline, read_lines yields that partial segment and it is what
\* json.loads is given.
C16_Chunking ==
    /\ tpc = "decode" =>
          /\ wire = <<>>
          /\ EndsWithNL(buffer) \/ peer = "closed"
    /\ (tpc = "done" /\ GotLine) =>
          /\ \A resp \in Responses :
                Written = Encode(resp) => result = unpack(cmd, resp)
          /\ ~EndsWithNL(Written) =>
                /\ read_lines_yield(buffer) = <<Written>>
                /\ result = unpack(cmd, json_loads(Written))

\* the first byte of an answer has been received and the rest of its line is in flight
C16_Witness ==
    /\ tpc = "recv"
    /\ Len(buffer) = 1
    /\ wire # <<>>
    /\ cmd.kind = "named"
    /\ Written = Encode(Envelope(TRUE, JDict("Windows", "data"), FALSE, ""))

(***************************************************************************)
(* The daemon as the operations see it through their queries, and what it  *)
(* does with the actions they send.  A send_command round trip is one step *)
(* here (SpecSend has its bytes); CallFails is the round trip raising.     *)
(***************************************************************************)
Workspace(id, idx, output, is_active) ==
    [id |-> id, idx |-> idx, output |-> output, is_active |-> is_active]

Window(id, app_id, workspace_id, col, row, width) ==
    [id |-> id, app_id |-> app_id, workspace_id |-> workspace_id,
     col |-> col, row |-> row, width |-> width]

\* an action as send_command is given it: {"Action": {name: {...}}}
Act(name, id, width, command) ==
    [action |-> name, id |-> id, width |-> width, command |-> command]

\* niri on {"Action": {"FocusWorkspace": {"reference": {"Index": i}}}}
focus_workspace(ws, output, i) ==
    IF \E w \in ws : w.output = output /\ w.idx = i
    THEN {IF w.output = output THEN [w EXCEPT !.is_active = (w.idx = i)] ELSE w : w \in ws}
    ELSE ws

\* the index of the active workspace of the focused output, as niri has it now
ActiveIdx ==
    LET act == {w \in workspaces : w.output = focused_output /\ w.is_active}
    IN  IF act = {} THEN 0 ELSE (CHOOSE w \in act : TRUE).idx

\* positions at which the next step of an operation is a send_command call
CallPcs == {"c116", "c118", "fw102", "fw104", "occ95", "occ97", "c153",
            "s76", "s79", "s84",
            "f174", "f177", "f179", "f226", "f243", "f255"}

\* a send_command call of the running operation raises; nothing catches it
CallFails ==
    /\ pc \in CallPcs
    /\ pc' = "failed"
    /\ UNCHANGED <<args, loc, sent, last, hist, pure, tvars, dvars>>

(***************************************************************************)
(* focused_workspace and occupied_workspaces.                              *)
(***************************************************************************)
\* focused_workspace, line 102
FwFocusedOutput ==
    /\ pc = "fw102"
    /\ loc' = [loc EXCEPT !.fw_output = focused_output]
    /\ pc' = "fw104"
    /\ UNCHANGED <<args, sent, last, hist, pure, tvars, dvars>>

\* the workspaces next(...) of lines 106-110 chooses among
ActiveOn(ws, output) == {w \in ws : w.output = output /\ w.is_active}

\* next(...) is given a default: with no active workspace the index is 0.
FwWorkspaces_default ==
    /\ pc = "fw104"
    /\ loc' = [loc EXCEPT !.current_workspace =
                  IF ActiveOn(workspaces, loc.fw_output) = {} THEN 0
                  ELSE (CHOOSE w \in ActiveOn(workspaces, loc.fw_output) : TRUE).idx]
    /\ pc' = loc.ret
    /\ UNCHANGED <<args, sent, last, hist, pure, tvars, dvars>>

\* focused_workspace, lines 104-112: next(...) raises StopIteration on no match
FwWorkspaces ==
    /\ pc = "fw104"
    /\ IF ActiveOn(workspaces, loc.fw_output) = {}
       THEN pc' = "failed" /\ UNCHANGED loc
       ELSE /\ loc' = [loc EXCEPT !.current_workspace =
                          (CHOOSE w \in ActiveOn(workspaces, loc.fw_output) : TRUE).idx]
            /\ pc' = loc.ret
    /\ UNCHANGED <<args, sent, last, hist, pure, tvars, dvars>>

\* sorted([ws["idx"] for ws in ...]): one entry per workspace, duplicates kept
RECURSIVE SortedIdx(_)
SortedIdx(ws) ==
    IF ws = {} THEN <<>>
    ELSE LET w == CHOOSE x \in ws : \A y \in ws : x.idx <= y.idx
         IN  <<w.idx>> \o SortedIdx(ws \ {w})

\* occupied_workspaces, lines 95-96
OccWindows ==
    /\ pc = "occ95"
    /\ loc' = [loc EXCEPT !.windows_workspace_id = {w.workspace_id : w \in windows}]
    /\ pc' = "occ97"
    /\ UNCHANGED <<args, sent, last, hist, pure, tvars, dvars>>

\* occupied_workspaces, lines 97-98
OccWorkspaces ==
    /\ pc = "occ97"
    /\ loc' = [loc EXCEPT !.occupied =
                 OccList(SortedIdx({w \in workspaces : w.id \in loc.windows_workspace_id}))]
    /\ pc' = "c153"
    /\ UNCHANGED <<args, sent, last, hist, pure, tvars, dvars>>

(***************************************************************************)
(* SpecCycle: cycle_workspace, run after run, on a niri with the focused   *)
(* output "A" (workspaces 1..n, any one active, any set of them occupied)  *)
(* and another output "B".  Workspace ids differ from indices.             *)
(***************************************************************************)
CycleLocals ==
    [op |-> "cycle", focused_output |-> "", workspaces |-> {}, fw_output |-> "",
     current_workspace |-> 0, max_workspace |-> 0, windows_workspace_id |-> {},
     occupied |-> OccNone, ret |-> "c122"]

WsId(output, idx) == idx + (IF output = "A" THEN 10 ELSE 20)

InitCycle ==
    /\ focused_output = "A"
    /\ \E n \in 1..MaxWs, nB \in 0..MaxWsOther :
         \E a \in 1..n, occ \in SUBSET ({WsId("A", i) : i \in 1..n} \cup {WsId("B", i) : i \in 1..nB}) :
            /\ workspaces = {Workspace(WsId("A", i), i, "A", i = a) : i \in 1..n}
                               \cup {Workspace(WsId("B", i), i, "B", i = 1) : i \in 1..nB}
            /\ windows = {Window(w, <<>>, w, 1, 1, 0) : w \in occ}
    /\ focused_window = 0
    /\ output_width = 0
    /\ dpending = {}
    /\ pc = "idle"
    /\ args = [op |-> "none"]
    /\ loc = [op |-> "none"]
    /\ sent = <<>>
    /\ last = [op |-> "none"]
    /\ hist = [op |-> "none"]
    /\ IdlePure /\ IdleT

CycleStart ==
    /\ pc \in {"idle", "done", "failed"}
    /\ \E direction \in {"up", "down"}, skip_next_empty \in BOOLEAN :
         args' = [op |-> "cycle", direction |-> direction, skip_next_empty |-> skip_next_empty]
    /\ loc' = CycleLocals
    /\ sent' = <<>>
    /\ pc' = "c116"
    /\ UNCHANGED <<last, hist, pure, tvars, dvars>>

\* line 116
CycleFocusedOutput ==
    /\ pc = "c116"
    /\ loc' = [loc EXCEPT !.focused_output = focused_output]
    /\ pc' = "c118"
    /\ UNCHANGED <<args, sent, last, hist, pure, tvars, dvars>>

\* lines 118-120: the workspaces, then into focused_workspace
CycleWorkspaces ==
    /\ pc = "c118"
    /\ loc' = [loc EXCEPT !.workspaces = workspaces]
    /\ pc' = "fw102"
    /\ UNCHANGED <<args, sent, last, hist, pure, tvars, dvars>>

\* lines 122-130: max_workspace, and occupied unless skip_next_empty
CycleMax ==
    /\ pc = "c122"
    /\ loc' = [loc EXCEPT !.max_workspace =
                 SetMax({w.idx : w \in {x \in loc.workspaces : x.output = loc.focused_output}})]
    /\ pc' = IF args.skip_next_empty THEN "occ95" ELSE "c153"
    /\ UNCHANGED <<args, sent, last, hist, pure, tvars, dvars>>

\* lines 153-162: next_workspace, then the FocusWorkspace action, which niri applies
CycleFocus ==
    /\ pc = "c153"
    /\ LET new_workspace ==
               next_workspace(loc.current_workspace,
                              IF args.direction = "down" THEN 1 ELSE -1,
                              loc.occupied, loc.max_workspace)
       IN  IF new_workspace.exc # ""
           THEN pc' = "failed" /\ UNCHANGED <<sent, last, hist, dvars>>
           ELSE /\ sent' = Append(sent, Act("FocusWorkspace", new_workspace.val, 0, <<>>))
                /\ workspaces' = focus_workspace(workspaces, focused_output, new_workspace.val)
                /\ hist' = last
                /\ last' = [op |-> "cycle", direction |-> args.direction,
                            skip |-> args.skip_next_empty,
                            current |-> loc.current_workspace,
                            max |-> loc.max_workspace,
                            target |-> new_workspace.val]
                /\ pc' = "done"
                /\ UNCHANGED <<focused_output, windows, focused_window, output_width, dpending>>
    /\ UNCHANGED <<args, loc, pure, tvars>>

NextCycle ==
    \/ CycleStart
    \/ CycleFocusedOutput
    \/ CycleWorkspaces
    \/ FwFocusedOutput
    \/ FwWorkspaces
    \/ CycleMax
    \/ OccWindows
    \/ OccWorkspaces
    \/ CycleFocus
    \/ CallFails

SpecCycle == InitCycle /\ [][NextCycle]_vars

(***************************************************************************)
(* Properties of cycle_workspace with skip disabled.                       *)
(***************************************************************************)
\* C2: with skip disabled, from index c in 1..max, "down" focuses c+1, or 1 when
\* c = max; "up" focuses c-1, or max when c = 1; so "down" then "up" from an
\* interior index, niri applying each focus, is back on c.
C2_Wraparound ==
    /\ (last.op = "cycle" /\ ~last.skip /\ last.current \in 1..last.max) =>
          /\ last.direction = "down" =>
                last.target = (IF last.current = last.max THEN 1 ELSE last.current + 1)
          /\ last.direction = "up" =>
                last.target = (IF last.current = 1 THEN last.max ELSE last.current - 1)
          /\ pc = "done" => (sent = <<Act("FocusWorkspace", last.target, 0, <<>>)>>
                             /\ ActiveIdx = last.target)
    /\ (/\ last.op = "cycle" /\ hist.op = "cycle"
        /\ ~last.skip /\ ~hist.skip
        /\ hist.direction = "down" /\ last.direction = "up"
        /\ 1 < hist.current /\ hist.current < hist.max) =>
          /\ last.current = hist.current + 1
          /\ last.target = hist.current
          /\ pc = "done" => ActiveIdx = hist.current

C2_Witness ==
    /\ pc = "done"
    /\ last.op = "cycle" /\ hist.op = "cycle"
    /\ ~last.skip /\ ~hist.skip
    /\ hist.direction = "down" /\ last.direction = "up"
    /\ hist.current = 2 /\ hist.max = 3
    /\ ActiveIdx = 2

\* the indices of the workspaces of the focused output that have a window
OccupiedOnFocused ==
    {w.idx : w \in {x \in workspaces :
                       x.output = focused_output /\ \E win \in windows : win.workspace_id = x.id}}

\* C18 as stated: with an active workspace on the focused output, whatever the
\* direction and the skip flag, also in skip mode with no workspace occupied,
\* cycle_workspace computes its target without error and sends exactly one
\* FocusWorkspace, with an index in 1..max.
C18_AsStated ==
    /\ (args.op = "cycle" /\ pc = "c153") =>
          LET t == next_workspace(loc.current_workspace,
                                  IF args.direction = "down" THEN 1 ELSE -1,
                                  loc.occupied, loc.max_workspace)
          IN  t.exc = "" /\ t.val \in 1..loc.max_workspace
    /\ (args.op = "cycle" /\ pc = "done") =>
          /\ Len(sent) = 1
          /\ sent[1].action = "FocusWorkspace"
          /\ sent[1].id \in 1..loc.max_workspace

\* C19 as stated: with skip enabled, when the current workspace of the focused
\* output is empty and some workspace of that output is occupied, the index
\* cycle_workspace focuses is that of an occupied workspace of the focused
\* output, whatever windows the other outputs hold.
C19_AsStated ==
    (/\ args.op = "cycle" /\ pc = "done"
     /\ args.skip_next_empty
     /\ loc.current_workspace \notin OccupiedOnFocused
     /\ OccupiedOnFocused # {}) =>
        sent[1].id \in OccupiedOnFocused

(***************************************************************************)
(* Strings, for spawn_or_focus: a str is the sequence of its characters.   *)
(***************************************************************************)
Chars == {"f", "F", "x"}

\* str.lower(), character by character
LowerChar(ch) == IF ch = "F" THEN "f" ELSE ch

lower(str) == [i \in DOMAIN str |-> LowerChar(str[i])]

\* Python's "a in b" on strings: a is a substring of b
IsIn(a, b) == \E i \in 0..(Len(b) - Len(a)) : SubSeq(b, i + 1, i + Len(a)) = a

\* str.split(): the maximal runs of characters that are not whitespace
RECURSIVE split(_)
split(str) ==
    IF str = <<>> THEN <<>>
    ELSE IF Head(str) = " " THEN split(Tail(str))
    ELSE LET spaces == {i \in DOMAIN str : str[i] = " "}
             stop == IF spaces = {} THEN Len(str) + 1 ELSE SetMin(spaces)
         IN  <<SubSeq(str, 1, stop - 1)>> \o split(SubSeq(str, stop, Len(str)))

RECURSIVE SeqsUpTo(_, _)
SeqsUpTo(S, n) ==
    IF n = 0 THEN {<<>>}
    ELSE LET shorter == SeqsUpTo(S, n - 1)
         IN  shorter \cup {Append(q, x) : q \in shorter, x \in S}

AppIds == SeqsUpTo(Chars, MaxIdLen) \ {<<>>}

Commands == {<<"f">>, <<"f", " ", "x">>, <<" ", "f", " ", " ", "x", " ">>}

(***************************************************************************)
(* SpecSpawn: spawn_or_focus, run after run, on a niri with up to MaxWin   *)
(* windows and any one of them focused, or none.                           *)
(***************************************************************************)
None == [some |-> FALSE, v |-> <<>>]

Some(v) == [some |-> TRUE, v |-> v]

SpawnLocals ==
    [op |-> "spawn", focused_window_app_id |-> None, focused_window_id |-> 0, windows |-> {}]

InitSpawn ==
    /\ focused_output = "A"
    /\ workspaces = {Workspace(1, 1, "A", TRUE)}
    /\ \E k \in 0..MaxWin :
         \E ids \in [1..k -> AppIds] :
            windows = {Window(i, ids[i], 1, i, 1, 0) : i \in 1..k}
    /\ focused_window \in {0} \cup {w.id : w \in windows}
    /\ output_width = 0
    /\ dpending = {}
    /\ pc = "idle"
    /\ args = [op |-> "none"]
    /\ loc = [op |-> "none"]
    /\ sent = <<>>
    /\ last = [op |-> "none"]
    /\ hist = [op |-> "none"]
    /\ IdlePure /\ IdleT

SpawnStart ==
    /\ pc \in {"idle", "done", "failed"}
    /\ \E app_id \in AppIds, command \in Commands :
         args' = [op |-> "spawn", app_id |-> app_id, cmd |-> command]
    /\ loc' = SpawnLocals
    /\ sent' = <<>>
    /\ pc' = "s76"
    /\ UNCHANGED <<last, hist, pure, tvars, dvars>>

\* lines 76-77: the focused window, None when no window is focused
SpawnFocusedWindow ==
    /\ pc = "s76"
    /\ loc' = [loc EXCEPT
                 !.focused_window_id = focused_window,
                 !.focused_window_app_id =
                     IF focused_window = 0 THEN None
                     ELSE Some((CHOOSE w \in windows : w.id = focused_window).app_id)]
    /\ pc' = "s79"
    /\ UNCHANGED <<args, sent, last, hist, pure, tvars, dvars>>

\* line 79
SpawnWindows ==
    /\ pc = "s79"
    /\ loc' = [loc EXCEPT !.windows = windows]
    /\ pc' = "s84"
    /\ UNCHANGED <<args, sent, last, hist, pure, tvars, dvars>>

\* lines 81-83: the windows whose ids are collected into window_id
window_id(windows_, app_id) ==
    {w \in windows_ : IsIn(lower(w.app_id), lower(app_id))}

\* niri on FocusWindow, FocusWindowPrevious and Spawn
SpawnSend(a) ==
    /\ sent' = Append(sent, a)
    /\ focused_window' =
         IF a.action = "FocusWindow" THEN a.id ELSE focused_window
    /\ pc' = "done"
    /\ UNCHANGED <<focused_output, workspaces, windows, output_width, dpending>>

\* lines 84-91; window_id[0] is the first match in the order niri lists the windows
SpawnAct ==
    /\ pc = "s84"
    /\ LET matches == window_id(loc.windows, args.app_id)
       IN  IF matches # {}
           THEN IF loc.focused_window_app_id = Some(args.app_id)
                THEN SpawnSend(Act("FocusWindowPrevious", 0, 0, <<>>))
                ELSE \E w \in matches : SpawnSend(Act("FocusWindow", w.id, 0, <<>>))
           ELSE SpawnSend(Act("Spawn", 0, 0, split(args.cmd)))
    /\ UNCHANGED <<args, loc, last, hist, pure, tvars>>

NextSpawn ==
    \/ SpawnStart
    \/ SpawnFocusedWindow
    \/ SpawnWindows
    \/ SpawnAct
    \/ CallFails

SpecSpawn == InitSpawn /\ [][NextSpawn]_vars

(***************************************************************************)
(* Properties of spawn_or_focus.                                           *)
(***************************************************************************)
\* the windows of the snapshot whose app_id is the given one, case aside
C10_Matching == {w \in loc.windows : lower(w.app_id) = lower(args.app_id)}

\* C10 as stated: spawn_or_focus issues exactly one action: Spawn with the
\* command split on whitespace when no open window's app_id is the given one
\* (case-insensitively); FocusWindowPrevious, not FocusWindow, when a window
\* matches and the matching application is the focused one; FocusWindow for a
\* matching window otherwise.
C10_AsStated ==
    (pc = "done" /\ args.op = "spawn") =>
        /\ Len(sent) = 1
        /\ IF C10_Matching = {}
           THEN sent[1] = Act("Spawn", 0, 0, split(args.cmd))
           ELSE IF \E w \in C10_Matching : w.id = loc.focused_window_id
                THEN sent[1] = Act("FocusWindowPrevious", 0, 0, <<>>)
                ELSE /\ sent[1].action = "FocusWindow"
                     /\ sent[1].id \in {w.id : w \in C10_Matching}

(***************************************************************************)
(* fit_all_windows: its local computations.                                *)
(***************************************************************************)
\* window a is before window b in the order of pos_in_scrolling_layout
PosBefore(a, b) == a.col < b.col \/ (a.col = b.col /\ a.row <= b.row)

\* sorted(..., key=lambda x: x["layout"]["pos_in_scrolling_layout"])
RECURSIVE SortedByPos(_)
SortedByPos(ws) ==
    IF ws = {} THEN <<>>
    ELSE LET w == CHOOSE x \in ws : \A y \in ws : PosBefore(x, y)
         IN  <<w>> \o SortedByPos(ws \ {w})

\* lines 182-185: the filter compares workspace_id with focused_workspace()'s idx
windows_on_current_workspace(windows_, current_workspace) ==
    SortedByPos({w \in windows_ : w.workspace_id = current_workspace})

\* lines 188-193
n_columns_of(wocw) == Cardinality({wocw[i].col : i \in DOMAIN wocw})

\* zip(windows_on_current_workspace, widths) stops at the shorter of the two
ZipLen(wocw, widths) == Min(Len(wocw), Len(widths))

(***************************************************************************)
(* SpecFit: fit_all_windows on a niri with two workspaces on the focused   *)
(* output, the first active, whose ids are their indices or swapped, and   *)
(* up to MaxFitWin tiled windows laid out in columns and rows.  niri lays  *)
(* out an accepted resize later, and tells the event streams open then.    *)
(***************************************************************************)
FitOutputWidths == {4}

WinWidths == {1, 2}

FitWorkspaces ==
    {{Workspace(1, 1, "A", TRUE), Workspace(2, 2, "A", FALSE)},
     {Workspace(2, 1, "A", TRUE), Workspace(1, 2, "A", FALSE)}}

\* a tiled layout: on each workspace the columns are 1..c, in each column the rows 1..r
ValidLayout(ws) ==
    /\ \A a, b \in ws :
         (a.workspace_id = b.workspace_id /\ a.col = b.col /\ a.row = b.row) => a = b
    /\ \A a \in ws :
         /\ a.col > 1 => \E b \in ws : b.workspace_id = a.workspace_id /\ b.col = a.col - 1
         /\ a.row > 1 => \E b \in ws : /\ b.workspace_id = a.workspace_id
                                       /\ b.col = a.col /\ b.row = a.row - 1

FitLocals ==
    [op |-> "fit", output_width |-> 0, fw_output |-> "", current_workspace |-> 0,
     windows |-> {}, focused_window_id |-> 0, wocw |-> <<>>, n_columns |-> 0,
     widths |-> <<>>, i |-> 1, resized_window_ids |-> {}, lines |-> <<>>, seen |-> {},
     j |-> 1, ret |-> "f177"]

FitHist == [op |-> "fit", subs |-> 0, others |-> 0, left |-> ""]

\* window a is before window b by workspace, then column, then row
LayoutBefore(a, b) ==
    \/ a.workspace_id < b.workspace_id
    \/ a.workspace_id = b.workspace_id /\ PosBefore(a, b)

InitFit ==
    /\ focused_output = "A"
    /\ output_width \in FitOutputWidths
    /\ workspaces \in FitWorkspaces
    /\ \E k \in 1..MaxFitWin :
         \E f \in [1..k -> [workspace_id : {1, 2}, col : 1..k, row : 1..k, width : WinWidths]] :
            /\ windows = {Window(i, <<>>, f[i].workspace_id, f[i].col, f[i].row, f[i].width) :
                             i \in 1..k}
            /\ Cardinality(windows) = k
            /\ ValidLayout(windows)
            \* window ids are interchangeable: they run against the layout's order
            /\ \A a, b \in windows : a.id < b.id => LayoutBefore(b, a)
    /\ focused_window \in {0} \cup {w.id : w \in windows}
    /\ dpending = {}
    /\ pc = "idle"
    /\ args = [op |-> "none"]
    /\ loc = [op |-> "none"]
    /\ sent = <<>>
    /\ last = [op |-> "none"]
    /\ hist = FitHist
    /\ IdlePure /\ IdleT

FitStart ==
    /\ pc = "idle"
    /\ \E gaps \in {0, 1} : args' = [op |-> "fit", gaps |-> gaps]
    /\ loc' = FitLocals
    /\ sent' = <<>>
    /\ pc' = "f174"
    /\ UNCHANGED <<last, hist, pure, tvars, dvars>>

\* lines 174-176: the output's logical width, then into focused_workspace
FitOutputWidth ==
    /\ pc = "f174"
    /\ loc' = [loc EXCEPT !.output_width = output_width]
    /\ pc' = "fw102"
    /\ UNCHANGED <<args, sent, last, hist, pure, tvars, dvars>>

\* line 177
FitWindows ==
    /\ pc = "f177"
    /\ loc' = [loc EXCEPT !.windows = windows]
    /\ pc' = "f179"
    /\ UNCHANGED <<args, sent, last, hist, pure, tvars, dvars>>

\* lines 179-202: the focused window's id (TypeError on None), the windows of the
\* workspace sorted, the columns, the widths (ZeroDivisionError on no column)
FitFocusedWindow ==
    /\ pc = "f179"
    /\ LET wocw == windows_on_current_workspace(loc.windows, loc.current_workspace)
           n_columns == n_columns_of(wocw)
       IN  IF focused_window = 0 \/ n_columns = 0
           THEN pc' = "failed" /\ UNCHANGED loc
           ELSE /\ loc' = [loc EXCEPT
                             !.focused_window_id = focused_window,
                             !.wocw = wocw,
                             !.n_columns = n_columns,
                             !.widths = calculate_pixel_widths(
                                            usable_width(loc.output_width, args.gaps, n_columns),
                                            n_columns)]
                /\ pc' = "f204"
    /\ UNCHANGED <<args, sent, last, hist, pure, tvars, dvars>>

\* lines 204-209: the window is at its width, continue
FitResizeSkip ==
    /\ pc = "f204"
    /\ loc.i <= ZipLen(loc.wocw, loc.widths)
    /\ loc.wocw[loc.i].width = loc.widths[loc.i]
    /\ loc' = [loc EXCEPT !.i = loc.i + 1]
    /\ UNCHANGED <<pc, args, sent, last, hist, pure, tvars, dvars>>

\* lines 204-224: SetWindowWidth, which niri accepts and lays out later
FitResize ==
    /\ pc = "f204"
    /\ loc.i <= ZipLen(loc.wocw, loc.widths)
    /\ loc.wocw[loc.i].width # loc.widths[loc.i]
    /\ LET window == loc.wocw[loc.i]
           width == loc.widths[loc.i]
       IN  /\ sent' = Append(sent, Act("SetWindowWidth", window.id, width, <<>>))
           /\ dpending' = {p \in dpending : p.id # window.id}
                              \cup {[id |-> window.id, width |-> width]}
           /\ loc' = [loc EXCEPT !.i = loc.i + 1,
                                 !.resized_window_ids = loc.resized_window_ids \cup {window.id}]
    /\ UNCHANGED <<pc, args, last, hist, pure, tvars, focused_output, workspaces, windows,
                   focused_window, output_width>>

\* the send_command of lines 212-221 raises
FitResizeFails ==
    /\ pc = "f204"
    /\ loc.i <= ZipLen(loc.wocw, loc.widths)
    /\ loc.wocw[loc.i].width # loc.widths[loc.i]
    /\ pc' = "failed"
    /\ UNCHANGED <<args, loc, sent, last, hist, pure, tvars, dvars>>

\* The loop of line 204 is left before its last window.
FitResizeDone_early ==
    /\ pc = "f204"
    /\ pc' = "f226"
    /\ UNCHANGED <<args, loc, sent, last, hist, pure, tvars, dvars>>

\* the for loop of line 204 is over
FitResizeDone ==
    /\ pc = "f204"
    /\ loc.i > ZipLen(loc.wocw, loc.widths)
    /\ pc' = "f226"
    /\ UNCHANGED <<args, loc, sent, last, hist, pure, tvars, dvars>>

\* line 226, event_stream lines 43-45: connect and send "EventStream"
FitSubscribe ==
    /\ pc = "f226"
    /\ n_open' = n_open + 1
    /\ n_opened' = n_opened + 1
    /\ wire' = <<>>
    /\ peer' = "open"
    /\ buffer' = <<>>
    /\ hist' = [hist EXCEPT !.subs = hist.subs + 1]
    /\ pc' = "f229"
    /\ UNCHANGED <<env_address, cmd, tpc, result, args, loc, sent, last, pure, dvars>>

\* an event stream is open and subscribed
Subscribed == pc \in {"f229", "f230"} /\ peer = "open"

\* niri lays out some of the accepted resizes and writes one WindowLayoutsChanged
\* line for them to the event stream, if one is open
DaemonLayout ==
    /\ dpending # {}
    /\ \E S \in (SUBSET dpending) \ {{}} :
         /\ windows' = {IF \E p \in S : p.id = w.id
                        THEN [w EXCEPT !.width = (CHOOSE p \in S : p.id = w.id).width]
                        ELSE w : w \in windows}
         /\ dpending' = dpending \ S
         /\ wire' = IF Subscribed THEN wire \o Encode(LayoutEvent({p.id : p \in S})) ELSE wire
    /\ UNCHANGED <<env_address, cmd, tpc, n_open, n_opened, peer, buffer, result,
                   focused_output, workspaces, focused_window, output_width, ovars, pure>>

\* niri writes a line that is no layout change: the reply to the subscription, or
\* any other event
DaemonOtherEvent ==
    /\ Subscribed
    /\ hist.others < MaxOther
    /\ wire' = wire \o Encode(OtherEvent)
    /\ hist' = [hist EXCEPT !.others = hist.others + 1]
    /\ UNCHANGED <<env_address, cmd, tpc, n_open, n_opened, peer, buffer, result,
                   pc, args, loc, sent, last, dvars, pure>>

\* niri closes the event stream, or dies n bytes into a line
DaemonClose ==
    /\ Subscribed
    /\ \E n \in 0..LineLen : wire' = wire \o SubSeq(Encode(OtherEvent), 1, n)
    /\ peer' = "closed"
    /\ UNCHANGED <<env_address, cmd, tpc, n_open, n_opened, buffer, result,
                   ovars, dvars, pure>>

\* read_lines lines 27-29 under "for event in events": a chunk arrives; the while
\* loop ends once the buffer ends with a newline, and the lines are split
FitRecvChunk ==
    /\ pc = "f229"
    /\ wire # <<>>
    /\ \E k \in 1..Min(RecvSize, Len(wire)) :
         /\ buffer' = buffer \o SubSeq(wire, 1, k)
         /\ wire' = SubSeq(wire, k + 1, Len(wire))
    /\ IF EndsWithNL(buffer')
       THEN pc' = "f230" /\ loc' = [loc EXCEPT !.lines = read_lines_yield(buffer')]
       ELSE UNCHANGED <<pc, loc>>
    /\ UNCHANGED <<env_address, cmd, tpc, n_open, n_opened, peer, result,
                   args, sent, last, hist, dvars, pure>>

\* recv returns b"" and the loop goes on receiving.
FitRecvEOF_spin ==
    /\ pc = "f229"
    /\ wire = <<>>
    /\ peer = "closed"
    /\ UNCHANGED vars

\* read_lines lines 28-31: recv returns b"", break
FitRecvEOF ==
    /\ pc = "f229"
    /\ wire = <<>>
    /\ peer = "closed"
    /\ pc' = "f230"
    /\ loc' = [loc EXCEPT !.lines = read_lines_yield(buffer)]
    /\ UNCHANGED <<tvars, args, sent, last, hist, dvars, pure>>

\* the with block of line 226 is left with res: the socket is closed, what was
\* in flight is dropped, and how the wait ended is noted
LeaveStream(res, how) ==
    /\ n_open' = AfterExit(n_open, res)
    /\ wire' = <<>>
    /\ buffer' = <<>>
    /\ peer' = "quiet"
    /\ hist' = [hist EXCEPT !.left = IF peer = "closed" THEN "peer closed" ELSE how]

\* lines 229-240 with the next line read_lines yields: json.loads, then the body
FitEvent ==
    /\ pc = "f230"
    /\ loc.lines # <<>>
    /\ LET event == json_loads(Head(loc.lines))
           seen == IF event.hasWLC
                   THEN loc.seen \cup (event.wlc \cap loc.resized_window_ids)
                   ELSE loc.seen
       IN  IF event.kind = "garbage"
           THEN /\ pc' = "failed"
                /\ LeaveStream(Raise("JSONDecodeError", ""), "raise")
                /\ UNCHANGED loc
           ELSE IF loc.resized_window_ids = {}
           THEN /\ pc' = "f243"
                /\ LeaveStream(Return(JNull), "break")
                /\ loc' = [loc EXCEPT !.lines = <<>>]
           ELSE IF event.hasWLC /\ seen = loc.resized_window_ids
           THEN /\ pc' = "f243"
                /\ LeaveStream(Return(JNull), "break")
                /\ loc' = [loc EXCEPT !.seen = seen, !.lines = <<>>]
           ELSE /\ loc' = [loc EXCEPT !.seen = seen, !.lines = Tail(loc.lines)]
                /\ UNCHANGED <<pc, n_open, wire, buffer, peer, hist>>
    /\ UNCHANGED <<env_address, cmd, tpc, n_opened, result, args, sent, last, dvars, pure>>

\* read_lines has yielded its last line and returns: the for loop of line 229 ends
FitEventsEnd ==
    /\ pc = "f230"
    /\ loc.lines = <<>>
    /\ pc' = "f243"
    /\ LeaveStream(Return(JNull), "exhausted")
    /\ UNCHANGED <<env_address, cmd, tpc, n_opened, result, args, loc, sent, last, dvars, pure>>

\* lines 243-252: FocusWindow for the next window of the workspace
FitFocus ==
    /\ pc = "f243"
    /\ loc.j <= Len(loc.wocw)
    /\ sent' = Append(sent, Act("FocusWindow", loc.wocw[loc.j].id, 0, <<>>))
    /\ focused_window' = loc.wocw[loc.j].id
    /\ loc' = [loc EXCEPT !.j = loc.j + 1]
    /\ pc' = IF loc.j = Len(loc.wocw) THEN "f255" ELSE "f243"
    /\ UNCHANGED <<args, last, hist, pure, tvars, focused_output, workspaces, windows,
                   output_width, dpending>>

\* lines 255-263: FocusWindow for the window focused at the start
FitRestore ==
    /\ pc = "f255"
    /\ sent' = Append(sent, Act("FocusWindow", loc.focused_window_id, 0, <<>>))
    /\ focused_window' = loc.focused_window_id
    /\ pc' = "done"
    /\ UNCHANGED <<args, loc, last, hist, pure, tvars, focused_output, workspaces, windows,
                   output_width, dpending>>

NextFit ==
    \/ FitStart
    \/ FitOutputWidth
    \/ FwFocusedOutput
    \/ FwWorkspaces
    \/ FitWindows
    \/ FitFocusedWindow
    \/ FitResizeSkip
    \/ FitResize
    \/ FitResizeFails
    \/ FitResizeDone
    \/ FitSubscribe
    \/ DaemonLayout
    \/ DaemonOtherEvent
    \/ DaemonClose
    \/ FitRecvChunk
    \/ FitRecvEOF
    \/ FitEvent
    \/ FitEventsEnd
    \/ FitFocus
    \/ FitRestore
    \/ CallFails

SpecFit == InitFit /\ [][NextFit]_vars

(***************************************************************************)
(* SpecOps: one run of any of the three operations on a niri with two      *)
(* workspaces on the focused output, the first active or none active, and  *)
(* up to MaxSmallWin windows on the first, the first of them focused.      *)
(***************************************************************************)
InitOps ==
    /\ focused_output = "A"
    /\ output_width \in FitOutputWidths
    /\ \E active \in BOOLEAN :
         workspaces = {Workspace(1, 1, "A", active), Workspace(2, 2, "A", FALSE)}
    /\ \E k \in 1..MaxSmallWin :
         \E f \in [1..k -> [col : 1..k, row : 1..k, width : WinWidths]] :
            /\ windows = {Window(i, <<"f">>, 1, f[i].col, f[i].row, f[i].width) : i \in 1..k}
            /\ Cardinality(windows) = k
            /\ ValidLayout(windows)
            /\ \A a, b \in windows : a.id < b.id => LayoutBefore(b, a)
    \* window ids run against the layout's order: the first window is focused
    /\ focused_window = Cardinality(windows)
    /\ dpending = {}
    /\ pc = "idle"
    /\ args = [op |-> "none"]
    /\ loc = [op |-> "none"]
    /\ sent = <<>>
    /\ last = [op |-> "none"]
    /\ hist = FitHist
    /\ IdlePure /\ IdleT

NextOps ==
    \/ pc = "idle" /\ CycleStart
    \/ CycleFocusedOutput
    \/ CycleWorkspaces
    \/ CycleMax
    \/ OccWindows
    \/ OccWorkspaces
    \/ CycleFocus
    \/ pc = "idle" /\ SpawnStart
    \/ SpawnFocusedWindow
    \/ SpawnWindows
    \/ SpawnAct
    \/ NextFit

SpecOps == InitOps /\ [][NextOps]_vars

(***************************************************************************)
(* SpecWait: one run of fit_all_windows in which niri answers every        *)
(* command, on up to MaxWaitWin windows of the active workspace.  The      *)
(* client is scheduled fairly: it takes its next step whenever it has one  *)
(* (a recv returns when bytes are in flight or the peer has closed).       *)
(***************************************************************************)
InitWait ==
    /\ focused_output = "A"
    /\ output_width \in FitOutputWidths
    /\ workspaces = {Workspace(1, 1, "A", TRUE), Workspace(2, 2, "A", FALSE)}
    /\ \E k \in 1..MaxWaitWin :
         \E f \in [1..k -> [col : 1..k, row : 1..k, width : WinWidths]] :
            /\ windows = {Window(i, <<>>, 1, f[i].col, f[i].row, f[i].width) : i \in 1..k}
            /\ Cardinality(windows) = k
            /\ ValidLayout(windows)
            /\ \A a, b \in windows : a.id < b.id => LayoutBefore(b, a)
    /\ focused_window = Cardinality(windows)
    /\ dpending = {}
    /\ pc = "idle"
    /\ args = [op |-> "none"]
    /\ loc = [op |-> "none"]
    /\ sent = <<>>
    /\ last = [op |-> "none"]
    /\ hist = FitHist
    /\ IdlePure /\ IdleT

\* the steps of the client
ClientStep ==
    \/ FitStart
    \/ FitOutputWidth
    \/ FwFocusedOutput
    \/ FwWorkspaces
    \/ FitWindows
    \/ FitFocusedWindow
    \/ FitResizeSkip
    \/ FitResize
    \/ FitResizeDone
    \/ FitSubscribe
    \/ FitRecvChunk
    \/ FitRecvEOF
    \/ FitEvent
    \/ FitEventsEnd
    \/ FitFocus
    \/ FitRestore

NextWait ==
    \/ ClientStep
    \/ DaemonLayout
    \/ DaemonOtherEvent
    \/ DaemonClose

SpecWait == InitWait /\ [][NextWait]_vars /\ WF_vars(ClientStep)

(***************************************************************************)
(* Properties of fit_all_windows.                                          *)
(***************************************************************************)
\* the windows of the snapshot that are on the active workspace of the focused output
ActiveWindows ==
    {w \in loc.windows :
        \E ws \in workspaces :
            ws.output = focused_output /\ ws.is_active /\ ws.id = w.workspace_id}

\* the target width of window w among the windows W of its workspace: that of its
\* column, by the column's rank among the distinct column indices
TargetWidth(w, W) ==
    LET cols == {v.col : v \in W}
        rank == Cardinality({c \in cols : c <= w.col})
    IN  calculate_pixel_widths(
            usable_width(loc.output_width, args.gaps, Cardinality(cols)),
            Cardinality(cols))[rank]

AllAtTarget ==
    /\ ActiveWindows # {}
    /\ \A w \in ActiveWindows : w.width = TargetWidth(w, ActiveWindows)

\* the windows the run works on are those of the active workspace, one per column
\* (the other snapshots are the matter of C11 and C12)
SeesActiveColumns ==
    /\ Range(loc.wocw) = ActiveWindows
    /\ Len(loc.wocw) = loc.n_columns

\* C8 as stated: when every window of the active workspace has its target width,
\* fit_all_windows sends no SetWindowWidth and skips the event wait: it opens no
\* event-stream connection, sends no subscription and never blocks reading.
\* (Stated here for the snapshots with one window per column on which the run
\* works on the active workspace's windows.)
C8_AsStated ==
    (args.op = "fit" /\ AllAtTarget /\ SeesActiveColumns) =>
        /\ \A k \in DOMAIN sent : sent[k].action # "SetWindowWidth"
        /\ hist.subs = 0
        /\ n_opened = 0
        /\ pc \notin {"f229", "f230"}

\* C9 as stated: with a non-empty pending set, fit_all_windows leaves the event
\* wait (and goes on to its focus commands) only once every pending id has been
\* in a WindowLayoutsChanged event it read. (Stated here for the waits niri did
\* not end by closing the stream or by a broken line.)
C9_AsStated ==
    (/\ args.op = "fit"
     /\ loc.resized_window_ids # {}
     /\ hist.left \in {"break", "exhausted"}) =>
        loc.seen = loc.resized_window_ids

\* the run is past its resize loop (lines 204-224) and has not failed
FitPastResizes ==
    /\ args.op = "fit"
    /\ pc \in {"f226", "f229", "f230", "f243", "f255", "done"}

\* the SetWindowWidth commands sent, as (window id, SetFixed width)
ResizesSent ==
    {[id |-> sent[k].id, width |-> sent[k].width] :
        k \in {i \in DOMAIN sent : sent[i].action = "SetWindowWidth"}}

\* the ids of the FocusWindow commands sent, in the order sent
FocusSent ==
    LET f == SelectSeq(sent, LAMBDA a : a.action = "FocusWindow")
    IN  [k \in DOMAIN f |-> f[k].id]

\* C11 as stated: fit_all_windows sends a SetFixed resize with the target width of
\* the window's column for exactly the windows of the active workspace whose
\* width differs from that target, and records exactly their ids as pending, also
\* when a column holds several windows. (Stated here for the snapshots on which
\* the run works on the active workspace's windows; the others are C12's.)
C11_AsStated ==
    (FitPastResizes /\ Range(loc.wocw) = ActiveWindows) =>
        LET off == {w \in ActiveWindows : w.width # TargetWidth(w, ActiveWindows)}
        IN  /\ ResizesSent = {[id |-> w.id, width |-> TargetWidth(w, ActiveWindows)] : w \in off}
            /\ loc.resized_window_ids = {w.id : w \in off}

\* C12 as stated: the windows fit_all_windows resizes and focuses in its second
\* pass are exactly the windows whose workspace_id is the id of the active
\* workspace of the focused output, also when that id differs from its idx.
C12_AsStated ==
    (args.op = "fit" /\ pc = "f255") =>
        /\ Range(FocusSent) = {w.id : w \in ActiveWindows}
        /\ loc.resized_window_ids \subseteq {w.id : w \in ActiveWindows}

\* C14 as stated: a fit_all_windows run that does not fail has sent, after the
\* event wait, one FocusWindow for every window of the active workspace in
\* (column, row) order, also when nothing was resized, and then, as its last
\* command, a FocusWindow for the window focused when the snapshot was taken.
C14_AsStated ==
    (args.op = "fit" /\ pc = "done") =>
        LET order == SortedByPos(ActiveWindows)
        IN  /\ FocusSent = [k \in 1..(Len(order) + 1) |->
                               IF k <= Len(order) THEN order[k].id ELSE loc.focused_window_id]
            /\ sent[Len(sent)] = Act("FocusWindow", loc.focused_window_id, 0, <<>>)
            /\ hist.left # ""

\* C15 as stated: the sequence of events ends only when niri closes the
\* connection or the consumer stops reading; while the connection is open every
\* line niri writes is produced, also one that arrives after an earlier burst
\* ended on a newline. So the for loop of line 229 never runs out of events on
\* an open connection.
C15_AsStated ==
    args.op = "fit" => hist.left # "exhausted"

\* positions of fit_all_windows before its event_stream() call (line 226)
BeforeSubscription == {"f174", "fw102", "fw104", "f177", "f179", "f204", "f226"}

\* C13: fit_all_windows subscribes to the event stream only once its resize loop
\* is over, every SetWindowWidth sent and answered (each a send_command round
\* trip of its own, no connection left open); it subscribes once, sends no
\* SetWindowWidth after that, and sends no FocusWindow before the event wait has
\* ended, so every SetWindowWidth of a run precedes every FocusWindow.
C13_Ordering ==
    args.op = "fit" =>
        /\ pc \in BeforeSubscription => (hist.subs = 0 /\ n_open = 0 /\ FocusSent = <<>>)
        /\ hist.subs > 0 =>
              /\ hist.subs = 1
              /\ pc \notin BeforeSubscription
              /\ loc.i > ZipLen(loc.wocw, loc.widths)
              /\ {sent[k].id : k \in {j \in DOMAIN sent : sent[j].action = "SetWindowWidth"}}
                    = loc.resized_window_ids
        /\ pc \in {"f229", "f230"} => (n_open = 1 /\ hist.left = "" /\ FocusSent = <<>>)
        /\ FocusSent # <<>> => (hist.left # "" /\ n_open = 0)
        /\ \A j, k \in DOMAIN sent :
              (sent[j].action = "SetWindowWidth" /\ sent[k].action = "FocusWindow") => j < k

C13_Witness ==
    /\ args.op = "fit" /\ pc = "done"
    /\ hist.subs = 1
    /\ hist.left = "break"
    /\ Cardinality(ResizesSent) = 2
    /\ Len(FocusSent) = 3

\* C17: an operation that has failed (a send_command call raised, or
\* focused_workspace found no active workspace) has ended: it sends nothing more.
\* So fit_all_windows resizes no window twice (no resize is taken back), and with
\* no active workspace on the focused output no operation that asks for it sends
\* anything: cycle_workspace no FocusWorkspace, fit_all_windows nothing at all.
C17_NoRetry ==
    /\ [][pc = "failed" => (pc' = "failed" /\ sent' = sent)]_vars
    /\ [](\A j, k \in DOMAIN sent :
            (/\ sent[j].action = "SetWindowWidth"
             /\ sent[k].action = "SetWindowWidth"
             /\ sent[j].id = sent[k].id) => j = k)
    /\ []((args.op = "fit" /\ ActiveOn(workspaces, focused_output) = {})
            => (sent = <<>> /\ pc # "done"))
    /\ []((args.op = "cycle" /\ ActiveOn(loc.workspaces, loc.focused_output) = {})
            => (sent = <<>> /\ pc # "done"))

\* fit_all_windows has failed after a resize niri accepted
C17_Witness ==
    /\ args.op = "fit" /\ pc = "failed"
    /\ Cardinality(ResizesSent) = 1
    /\ Len(loc.wocw) = 2
    /\ dpending # {}

\* the window ids of the layout changes niri has written to the event stream
\* being read: those received and those in flight
ToldIds ==
    UNION {b.m.wlc : b \in {x \in Range(buffer \o wire) : x.m.hasWLC}}

\* fit_all_windows is in its event wait with a non-empty pending set
Waiting ==
    /\ args.op = "fit"
    /\ pc \in {"f229", "f230"}
    /\ loc.resized_window_ids # {}

\* niri has written a layout change for every pending window, or has closed
DeliveredOrClosed ==
    \/ loc.resized_window_ids \subseteq ToldIds
    \/ peer = "closed"

\* C20 as stated: in a run with a non-empty pending set in which niri answers
\* every command and, after the subscription, delivers a layout change for each
\* pending window or closes the connection, the wait ends and the run reaches its
\* final FocusWindow; so such a run, once subscribed, does not end in an error.
C20_AsStated ==
    (args.op = "fit" /\ loc.resized_window_ids # {} /\ hist.subs > 0) => pc # "failed"

\* C20, amended: once niri has written a layout change for every pending window
\* or has closed the connection, the event wait ends and the run reaches its
\* final FocusWindow, or, niri having closed in the middle of a line, ends in
\* the JSON decode error of that line; the client never blocks forever.
C20_WaitEnds ==
    (Waiting /\ DeliveredOrClosed) ~>
        (\/ pc = "done" /\ sent[Len(sent)] = Act("FocusWindow", loc.focused_window_id, 0, <<>>)
         \/ pc = "failed" /\ hist.left = "peer closed")

\* a run whose pending windows were all told of has reached its end
C20_Witness ==
    /\ args.op = "fit" /\ pc = "done"
    /\ loc.resized_window_ids # {}
    /\ loc.seen = loc.resized_window_ids
    /\ hist.left = "break"

=============================================================================
